---- MODULE Spec2Model ----
(***************************************************************************)
(* A model of AttractorCanvas.Attractor (src/attractor.js): the render     *)
(* loop update()/updateFunc, its cooperative scheduling with setImmediate, *)
(* the stop request, the system catalogue with its custom slots, and the   *)
(* notifications triggered on the canvas.                                  *)
(*                                                                         *)
(* Numbers.  A JavaScript number is modelled as a record [k, v, e]:        *)
(*   k = "fin"  : the finite value v/Unit + e*eta, v and e integers, eta   *)
(*                the 1e-12 of update() (an offset far below 1/Unit);      *)
(*   k = "nan", "pinf", "ninf" : NaN, +Infinity, -Infinity.                *)
(* Arithmetic is exact on this grid and follows IEEE-754 for the three     *)
(* special values.  The one rounding error that is modelled is that of the *)
(* quotient in colToX and rowToY (see ExcessNumerators): it decides the    *)
(* ties of Math.round in xToCol and yToRow.  Finite values of the model    *)
(* stay far below the escape bound 2^32 of update(), so only the           *)
(* infinities exceed it.                                                   *)
(***************************************************************************)
EXTENDS Integers, Sequences, FiniteSets, TLC

\* Fixed-point denominator: 1.0 is Unit grid steps.  It makes the viewport
\* edges (c + 0.5 - W/2) / zoom exact for the catalogue zooms 30 and 100 and
\* for the zooms 15, 60 and 120 reached from 30 by zoomBy.
Unit == 2 * 600

\* ------------------------------------------------------------------ bounds
\* Number of update() calls explored.
MaxRuns == 2
\* Number of stop() calls explored.
MaxStops == 1
\* Number of custom-slot replacements (function or parameter set) explored.
MaxEdits == 1
\* Attractor instances constructed in one behaviour.
MaxInstances == 2

\* ------------------------------------------------------- program constants
\* <canvas id="canvas" width="400" height="400">
CanvasWidth == 400
CanvasHeight == 400
\* end = i + Math.min(this.iterations, 1000)
SliceSize == 1000
\* minIterations = 50
minIterations == 50
\* if (i > 1000): start of the Lyapunov sampling
LyapunovWarmup == 1000
\* initialZoom of the Custom system, and of Peter de Jong
CustomInitialZoom == 30
\* this.zoom = Math.min(width, height) / 4 in the constructor
ConstructorZoomDivisor == 4
\* Number of systems in the catalogue; Custom is the last one.
NumSystems == 8

\* ---------------------------------------------------------------- numbers
Fin(v, e) == [k |-> "fin", v |-> v, e |-> e]
NaN == [k |-> "nan", v |-> 0, e |-> 0]
PosInf == [k |-> "pinf", v |-> 0, e |-> 0]
NegInf == [k |-> "ninf", v |-> 0, e |-> 0]
\* A finite value above the escape bound 2^32 of update() (its magnitude is not
\* tracked: the model only compares it and hands it on).
Huge == [k |-> "huge", v |-> 0, e |-> 0]
\* A value off the grid of the model.  The inputs of the model are chosen so that
\* it never arises (invariant Representable).
Unrep == [k |-> "unrep", v |-> 0, e |-> 0]
Zero == Fin(0, 0)
One == Fin(Unit, 0)
\* eta = Math.pow(10, -12)
eta == Fin(0, 1)

OrderedKinds == {"fin", "huge", "pinf", "ninf"}
Rank(a) == CASE a.k = "ninf" -> 0 [] a.k = "fin" -> 1 [] a.k = "huge" -> 2 [] OTHER -> 3
isNaN(a) == a.k = "nan"
IsFin(a) == a.k = "fin"

Neg(a) ==
    CASE a.k = "fin" -> Fin(-a.v, -a.e)
      [] a.k = "pinf" -> NegInf
      [] a.k = "ninf" -> PosInf
      [] OTHER -> a

Add(a, b) ==
    IF a.k = "unrep" \/ b.k = "unrep" THEN Unrep
    ELSE IF isNaN(a) \/ isNaN(b) THEN NaN
    ELSE IF IsFin(a) /\ IsFin(b) THEN Fin(a.v + b.v, a.e + b.e)
    ELSE IF a.k = "huge" \/ b.k = "huge" THEN Unrep
    ELSE IF IsFin(a) THEN b
    ELSE IF IsFin(b) THEN a
    ELSE IF a.k = b.k THEN a
    ELSE NaN

Sub(a, b) == Add(a, Neg(b))

\* a < b; false as soon as one side is NaN, as in JavaScript.
Lt(a, b) ==
    IF ~(a.k \in OrderedKinds) \/ ~(b.k \in OrderedKinds) THEN FALSE
    ELSE IF Rank(a) # Rank(b) THEN Rank(a) < Rank(b)
    ELSE IF IsFin(a) THEN a.v < b.v \/ (a.v = b.v /\ a.e < b.e)
    ELSE FALSE

Ge(a, b) ==
    IF ~(a.k \in OrderedKinds) \/ ~(b.k \in OrderedKinds) THEN FALSE ELSE ~Lt(a, b)

Gt(a, b) == Lt(b, a)

\* Math.abs
Abs(a) ==
    IF a.k = "ninf" THEN PosInf
    ELSE IF IsFin(a) /\ Lt(a, Zero) THEN Neg(a)
    ELSE a

\* The element of a one-element set.  Only({F(v) : v \in {e}}) is F(e), with e
\* evaluated once.
Only(S) == CHOOSE t \in S : TRUE

\* Math.round of the finite rational n/d (d > 0): floor(n/d + 1/2).
RoundRatio(n, d) == (2 * n + d) \div (2 * d)


\* --------------------------------------------- the Lyapunov accumulator
\* this.lyapunov is a sum of samples Math.log(nextd / d0), later divided by a
\* count.  In the model a sample is 0 (nextd = d0) or L = ln(1/eta) (the two
\* points one whole unit apart on each axis), so a finite accumulator is the
\* rational n/d in units of L, kept in lowest terms.
RECURSIVE Gcd(_, _)
Gcd(a, b) == IF b = 0 THEN a ELSE Gcd(b, a % b)
AbsInt(n) == IF n < 0 THEN -n ELSE n
LFin(n, d) ==
    IF n = 0 THEN [k |-> "fin", n |-> 0, d |-> 1]
    ELSE LET g == Gcd(AbsInt(n), d) IN [k |-> "fin", n |-> n \div g, d |-> d \div g]
LNaN == [k |-> "nan", n |-> 0, d |-> 1]
LPosInf == [k |-> "pinf", n |-> 0, d |-> 1]
LNegInf == [k |-> "ninf", n |-> 0, d |-> 1]
LUnrep == [k |-> "unrep", n |-> 0, d |-> 1]
\* this.lyapunov before the first update(): the property does not exist yet
LUndefined == [k |-> "undefined", n |-> 0, d |-> 1]

LAdd(a, b) ==
    IF a.k = "unrep" \/ b.k = "unrep" THEN LUnrep
    ELSE IF a.k = "nan" \/ b.k = "nan" THEN LNaN
    ELSE IF a.k = "fin" /\ b.k = "fin" THEN LFin(a.n * b.d + b.n * a.d, a.d * b.d)
    ELSE IF a.k = "fin" THEN b
    ELSE IF b.k = "fin" THEN a
    ELSE IF a.k = b.k THEN a
    ELSE LNaN

\* this.lyapunov /= lyapunovNumIter, for a count >= 1
LDiv(a, cnt) == IF a.k = "fin" THEN LFin(a.n, a.d * cnt) ELSE a

\* nextd = Math.sqrt(nextdx * nextdx + nextdy * nextdy), by its relation to d0:
\*   "nan", "pinf", "zero";  "d0": nextd = d0;  "far": nextd = d0 / eta.
Distance(dx, dy) ==
    IF dx.k = "unrep" \/ dy.k = "unrep" THEN "unrep"
    ELSE IF isNaN(dx) \/ isNaN(dy) THEN "nan"
    ELSE IF dx.k = "huge" \/ dy.k = "huge" THEN "unrep"
    ELSE IF ~IsFin(dx) \/ ~IsFin(dy) THEN "pinf"
    ELSE IF dx = Zero /\ dy = Zero THEN "zero"
    ELSE IF dx.v = 0 /\ dy.v = 0 /\ AbsInt(dx.e) = 1 /\ AbsInt(dy.e) = 1 THEN "d0"
    ELSE IF AbsInt(dx.v) = Unit /\ AbsInt(dy.v) = Unit THEN "far"
    ELSE "unrep"

\* Math.log(nextd / d0)
LogRatio(nextd) ==
    CASE nextd = "nan" -> LNaN
      [] nextd = "pinf" -> LPosInf
      [] nextd = "zero" -> LNegInf
      [] nextd = "d0" -> LFin(0, 1)
      [] nextd = "far" -> LFin(1, 1)
      [] OTHER -> LUnrep

Sign(n) == IF n < 0 THEN -1 ELSE IF n > 0 THEN 1 ELSE 0

\* d0 * nextdx / nextd
Renormalised(nextdx, nextd) ==
    CASE nextd = "nan" -> NaN
      [] nextd = "zero" -> NaN
      [] nextd = "pinf" -> IF IsFin(nextdx) THEN Zero ELSE NaN
      [] nextd = "d0" -> Fin(0, nextdx.e)
      [] nextd = "far" -> Fin(0, Sign(nextdx.v))
      [] OTHER -> Unrep


\* ----------------------------------------------------------- the catalogue
\* A parameter set is the pair <<tag, j>>: <<name, j>> is the j-th built-in set
\* of system name (its fields are not modelled), <<"a", j>> is the object {a: j}
\* given to setCustomParameterSet.
BuiltinSets(name, n) == [j \in 1..n |-> <<name, j>>]

\* params.a: undefined unless the object has the field
ParamA(params) == IF params[1] = "a" THEN Fin(params[2] * Unit, 0) ELSE NaN

\* The systems array of the prototype, before any instance is constructed.
\* iterate names the iteration function; only that of Custom is evaluated
\* by the model ("swap": return {x: y, y: x}).
Catalogue ==
    << [name |-> "Peter de Jong", x0 |-> One, y0 |-> One, initialZoom |-> 100,
        iterate |-> "PeterDeJong", parameterSets |-> BuiltinSets("Peter de Jong", 8)],
       [name |-> "Duffing", x0 |-> One, y0 |-> One, initialZoom |-> 100,
        iterate |-> "Duffing", parameterSets |-> BuiltinSets("Duffing", 1)],
       [name |-> "Henon", x0 |-> Zero, y0 |-> Zero, initialZoom |-> 30,
        iterate |-> "Henon", parameterSets |-> BuiltinSets("Henon", 4)],
       [name |-> "Gingerbread man", x0 |-> Fin(-(Unit \div 10), 0), y0 |-> Zero, initialZoom |-> 30,
        iterate |-> "Gingerbread", parameterSets |-> BuiltinSets("Gingerbread man", 1)],
       [name |-> "Tinkerbell map", x0 |-> Fin(-((72 * Unit) \div 100), 0),
        y0 |-> Fin(-((64 * Unit) \div 100), 0), initialZoom |-> 120,
        iterate |-> "Tinkerbell", parameterSets |-> BuiltinSets("Tinkerbell map", 1)],
       [name |-> "Bogdanov map", x0 |-> Fin(Unit \div 10, 0), y0 |-> Fin(Unit \div 10, 0),
        initialZoom |-> 100,
        iterate |-> "Bogdanov", parameterSets |-> BuiltinSets("Bogdanov map", 3)],
       [name |-> "Quadratic map", x0 |-> Fin(Unit \div 10, 0), y0 |-> Fin(Unit \div 10, 0),
        initialZoom |-> 100,
        iterate |-> "Quadratic", parameterSets |-> BuiltinSets("Quadratic map", 16)],
       [name |-> "Custom", x0 |-> Zero, y0 |-> Zero, initialZoom |-> CustomInitialZoom,
        iterate |-> "swap", parameterSets |-> BuiltinSets("Custom", 1)] >>

\* The iteration functions the model can evaluate: the one the catalogue gives
\* Custom, and functions a caller may pass to setCustomIterationFunction.
\*   swap      function(x, y, params) { return {x: y, y: x}; }
\*   flip      function(x, y, params) { return {x: 1 - x, y: 1 - y}; }
\*   pflip     function(x, y, params) { return {x: params.a - x, y: params.a - y}; }
\*   far       function(x, y, params) { return {x: 1e10, y: 1e10}; }
\*   nanx      function(x, y, params) { return {x: NaN, y: y}; }
\*   inf       function(x, y, params) { return {x: Infinity, y: y}; }
\*   throws    function(x, y, params) { throw "bad"; }
\*   gridOnly  as flip, but throws unless x and y are integers
\*   gridNaN   as flip, but returns {x: NaN, y: NaN} unless x and y are integers
\*   identity  function(x, y, params) { return {x: x, y: y}; }
\*   scale     function(x, y, params) { return {x: x * 1e10, y: y * 1e10}; }
\*   edge      function(x, y, params) { return {x: 6.66, y: 0}; }
Returned(x, y) == [thrown |-> FALSE, x |-> x, y |-> y]
Thrown == [thrown |-> TRUE, x |-> NaN, y |-> NaN]
OnGrid(a) == IsFin(a) /\ a.e = 0 /\ a.v % Unit = 0

\* Mutation of Scale: 0 is not mapped to itself.
ScaleWithoutFixedPoint(a) == IF ~IsFin(a) THEN a ELSE Huge

\* a * 1e10: 0 stays 0, a multiple of eta becomes a multiple of 0.01, one
\* whole unit or more exceeds 2^32.
Scale(a) ==
    IF ~IsFin(a) THEN a
    ELSE IF a.v = 0 THEN Fin(a.e * (Unit \div 100), 0)
    ELSE IF a.v >= Unit THEN Huge
    ELSE Unrep

Apply(f, x, y, params) ==
    CASE f = "swap" -> Returned(y, x)
      [] f = "identity" -> Returned(x, y)
      [] f = "scale" -> Returned(Scale(x), Scale(y))
      [] f = "edge" -> Returned(Fin((666 * Unit) \div 100, 0), Zero)
      [] f = "flip" -> Returned(Sub(One, x), Sub(One, y))
      [] f = "pflip" -> Returned(Sub(ParamA(params), x), Sub(ParamA(params), y))
      [] f = "far" -> Returned(Huge, Huge)
      [] f = "nanx" -> Returned(NaN, y)
      [] f = "inf" -> Returned(PosInf, y)
      [] f = "throws" -> Thrown
      [] f = "gridOnly" ->
            IF OnGrid(x) /\ OnGrid(y) THEN Returned(Sub(One, x), Sub(One, y)) ELSE Thrown
      [] f = "gridNaN" ->
            IF OnGrid(x) /\ OnGrid(y) THEN Returned(Sub(One, x), Sub(One, y))
            ELSE Returned(NaN, NaN)
      [] OTHER -> Returned(Unrep, Unrep)


\* ------------------------------------------------------------------ state
VARIABLES
    running,             \* this.running
    lyapunov,            \* this.lyapunov
    iterations,          \* this.iterations
    zoom,                \* this.zoom
    centreX,             \* this.centreX
    centreY,             \* this.centreY
    currentSystem,       \* this.currentSystem (0-based, as in the code)
    currentParameterSet, \* this.currentParameterSet (0-based)
    colourModeIndex,     \* this.colourModeIndex
    systems,             \* AttractorCanvas.Attractor.prototype.systems
    imageData,           \* this.imageData: pixel <<c, r>> -> colour written
    surface,             \* what the canvas shows (clearRect / putImageData)
    runs,                \* the closure of each update() call, in call order
    queue,               \* callbacks handed to setImmediate, oldest first
    obs,                 \* per run: what it has triggered and done (observer)
    last,                \* what the latest step did (observer)
    calls                \* number of stop() calls and of custom-slot edits so far

vars == << running, lyapunov, iterations, zoom, centreX, centreY, currentSystem,
           currentParameterSet, colourModeIndex, systems, imageData, surface,
           runs, queue, obs, last, calls >>

engineVars == << zoom, centreX, centreY, currentSystem, currentParameterSet, colourModeIndex >>

NoPixels == << >>

\* ------------------------------------------------------------- accessors
getSystem == systems[currentSystem + 1]
getParameterSet == systems[currentSystem + 1].parameterSets[currentParameterSet + 1]
getIterationFunction == systems[currentSystem + 1].iterate
getColourFunc == colourModeIndex

\* --------------------------------------------------- coordinate mapping
\* The quotient (n/2) / z of colToX and rowToY as an IEEE-754 double, for the
\* half-integers n/2 of a 400 pixel canvas: the odd n > 0 for which the double
\* quotient exceeds the exact one by so much that (n/2)/z * z, subtracted from
\* 200, is a double below 200 - n/2.  (124.5 / 30 * 30 is 124.50000000000001,
\* and 200 - 124.50000000000001 is 75.49999999999999.)  For every other n the
\* product, or its sum with 200, rounds back to the exact value.
ExcessNumerators(z) ==
    IF z \in {15, 30, 60, 120} THEN {249}
    ELSE IF z = 100 THEN {243, 245, 247, 249}
    ELSE {}
\* The sign of the rounding error of the double (n/2) / z for z > 0.
QuotientError(n, z) == IF AbsInt(n) \in ExcessNumerators(z) THEN Sign(n) ELSE 0

\* (c + 0.5 - this.imageData.width / 2) / this.zoom + this.centreX
colToX(c) ==
    Add(Fin(((2 * c + 1 - CanvasWidth) * Unit) \div (2 * zoom),
            QuotientError(2 * c + 1 - CanvasWidth, zoom)), centreX)
\* (r - 0.5 - this.imageData.height / 2) / -this.zoom + this.centreY
rowToY(r) ==
    Add(Fin(-(((2 * r - 1 - CanvasHeight) * Unit) \div (2 * zoom)),
            -QuotientError(2 * r - 1 - CanvasHeight, zoom)), centreY)

\* Math.round(n/d + t) for d > 0 and an offset t far below 1/d of which only
\* the sign is given: floor(n/d + 1/2), one less when n/d + 1/2 is an integer
\* and t is negative.
RoundNear(n, d, t) ==
    RoundRatio(n, d) - (IF (2 * n + d) % (2 * d) = 0 /\ t < 0 THEN 1 ELSE 0)

\* Math.round((x - cx) * z + this.imageData.width / 2)
ColAt(x, cx, z) ==
    RoundNear(2 * (x.v - cx.v) * z + CanvasWidth * Unit, 2 * Unit, x.e - cx.e)
\* Math.round((y - cy) * -z + this.imageData.height / 2)
RowAt(y, cy, z) ==
    RoundNear(-(2 * (y.v - cy.v) * z) + CanvasHeight * Unit, 2 * Unit, -(y.e - cy.e))

\* Math.round((x - this.centreX) * this.zoom + this.imageData.width / 2)
xToCol(x) == ColAt(x, centreX, zoom)
\* Math.round((y - this.centreY) * -this.zoom + this.imageData.height / 2)
yToRow(y) == RowAt(y, centreY, zoom)

\* colourModes[k].getColour(i, r, c, previousX) as <<hue, red, green, blue>>:
\* mode 0 hands its last argument to hsv2rgb (hue given, channels -1: hsv2rgb is
\* library code); modes 1 and 2 return the channels (hue -1).
getColour(mode, i, r, c, previousX) ==
    CASE mode = 0 -> << previousX, -1, -1, -1 >>
      [] mode = 1 -> << -1, 0, 0, 0 >>
      [] OTHER -> IF i % 2 = 1 THEN << -1, 255, 0, 0 >> ELSE << -1, 0, 0, 255 >>

\* setPixel(imageData, c, r, ...): the pixel now holds the colour
setPixel(pix, c, r, colour) == (<< c, r >> :> colour) @@ pix

\* ------------------------------------------------------ the render loop
\* What one iteration of the for loop of updateFunc reads of its closure.
IterateOf(run) == systems[run.sys + 1].iterate

\* Mutation of ParamsOf: the parameter set is looked up again at each call.
ParamsLive(run) == systems[run.sys + 1].parameterSets[currentParameterSet + 1]

ParamsOf(run) == run.params

\* x < xmin || x > xmax || y < ymin || y > ymax, with xmax = 2^32
Escaped(x, y) == x.k \in {"ninf", "huge", "pinf"} \/ y.k \in {"ninf", "huge", "pinf"}

\* The pixel branch: r, c from the live viewport, previousX shifted by the
\* canvas width when negative, colour from the captured colour function.
Plot(run, s) ==
    LET r == yToRow(s.y)
        c == xToCol(s.x)
        px == IF Lt(s.previousX, Zero) THEN Add(s.previousX, Fin(CanvasWidth * Unit, 0))
              ELSE s.previousX
    IN  [s EXCEPT !.pix = setPixel(s.pix, xToCol(s.x), yToRow(s.y),
                                   getColour(run.colourFunc, s.i, r, c, xToCol(px))),
                  !.previousX = px,
                  !.wrote = TRUE]

\* Observer: a pixel was written at another place than the viewport of the
\* moment of update() (s.view) gives for the point.
Mark(s1, s) ==
    [s1 EXCEPT !.moved = @ \/ xToCol(s.x) # ColAt(s.x, s.view.centreX, s.view.zoom)
                           \/ yToRow(s.y) # RowAt(s.y, s.view.centreY, s.view.zoom)]

\* The loop increment: i++, previousX = x, x = next.x, y = next.y
Advance(s, next) ==
    [s EXCEPT !.i = s.i + 1, !.previousX = s.x, !.x = next.x, !.y = next.y]

\* The Lyapunov step of an iteration with i > 1000, given nextdx, nextdy and
\* nextd, then the loop increment.  (samples is an observer: the sum of the
\* samples Math.log(nextd / d0) of the run.)
Accumulate(s, next, nextdx, nextdy, nextd) ==
    IF s.lyap.k = "nan" THEN [s EXCEPT !.out = "lyapunov1"]
    ELSE Only({ IF sum.k = "nan" THEN [s EXCEPT !.out = "lyapunov2", !.lyap = sum]
                ELSE Advance([s EXCEPT !.lyap = sum,
                                       !.samples = LAdd(s.samples, LogRatio(nextd)),
                                       !.n = s.n + 1,
                                       !.xe = Add(next.x, Renormalised(nextdx, nextd)),
                                       !.ye = Add(next.y, Renormalised(nextdy, nextd))],
                             next) :
                sum \in {LAdd(s.lyap, LogRatio(nextd))} })

Sample(s, next, nexte) ==
    Only({ Accumulate(s, next, nextdx, nextdy, Distance(nextdx, nextdy)) :
           nextdx \in {Sub(next.x, nexte.x)}, nextdy \in {Sub(next.y, nexte.y)} })

\* Mutation of PastWarmup: the iteration with index 1000 is sampled too.
PastWarmupFrom(s) == s.i >= LyapunovWarmup

\* if (i > 1000)
PastWarmup(s) == s.i > LyapunovWarmup

\* The iteration after the call for the partner point.
AfterPartner(s, next, nexte) ==
    IF nexte.thrown THEN [s EXCEPT !.out = "shadowThrown"]
    ELSE IF PastWarmup(s) THEN Sample(s, next, nexte)
    ELSE Advance(s, next)

\* Mutation of InvalidPoint: only the y-coordinate is tested.
InvalidPointYOnly(next) == isNaN(next.y)

\* isNaN(next.x) || isNaN(next.y)
InvalidPoint(next) == isNaN(next.x) \/ isNaN(next.y)

\* Mutation of PointAttractor: the test is made from iteration minIterations on.
PointAttractorFrom(s, next) ==
    Lt(Abs(Sub(s.x, next.x)), eta) /\ Lt(Abs(Sub(s.y, next.y)), eta)
    /\ s.i >= minIterations

\* dx < eta && dy < eta && i > minIterations
PointAttractor(s, next) ==
    Lt(Abs(Sub(s.x, next.x)), eta) /\ Lt(Abs(Sub(s.y, next.y)), eta)
    /\ s.i > minIterations

\* The iteration after the call for the main point: the catch, the isNaN
\* check, the point attractor check, then the call for the partner point.
AfterIterate(run, s, next) ==
    IF next.thrown THEN [s EXCEPT !.out = "thrown"]
    ELSE IF InvalidPoint(next) THEN [s EXCEPT !.out = "nan"]
    ELSE IF PointAttractor(s, next) THEN [s EXCEPT !.out = "converged"]
    ELSE Only({ AfterPartner(s, next, nexte) :
                nexte \in {Apply(IterateOf(run), s.xe, s.ye, ParamsOf(run))} })

\* Observer: the index of the first iteration whose call for the main point
\* returned a coordinate that is not a finite number; -1 while there is none.
Finite(a) == a.k \in {"fin", "huge"}
Note(s, next) ==
    IF ~next.thrown /\ s.notFinite = -1 /\ ~(Finite(next.x) /\ Finite(next.y))
    THEN [s EXCEPT !.notFinite = s.i]
    ELSE s

\* The iteration after the pixel branch: the escape check and the call for
\* the main point.
AfterPlot(run, s) ==
    IF Escaped(s.x, s.y) THEN [s EXCEPT !.out = "escaped"]
    ELSE Only({ AfterIterate(run, Note(s, next), next) :
                next \in {Apply(IterateOf(run), s.x, s.y, ParamsOf(run))} })

\* One iteration of the for loop.  s.out = "go" while the loop goes on; any
\* other value names the return or throw statement that left it.
Body(run, s) ==
    IF ~running THEN [s EXCEPT !.out = "stopped"]
    ELSE Only({ AfterPlot(run, s1) :
                s1 \in {IF Ge(s.x, run.left) /\ Lt(s.x, run.right)
                           /\ Ge(s.y, run.top) /\ Lt(s.y, run.bottom)
                        THEN Mark(Plot(run, s), s) ELSE s} })

\* for (; i < end; ...): at most cnt more iterations from s
RECURSIVE Loop(_, _, _)
Loop(run, s, cnt) ==
    IF cnt = 0 \/ s.out # "go" THEN s
    ELSE IF cnt = 1 THEN Body(run, s)
    ELSE Only({ Loop(run, half, cnt - cnt \div 2) : half \in {Loop(run, s, cnt \div 2)} })

Min(a, b) == IF a < b THEN a ELSE b
Count(seq, name) == Cardinality({j \in 1..Len(seq) : seq[j] = name})

\* Run id has a callback waiting in the setImmediate queue.
Pending(id) == \E j \in 1..Len(queue) : queue[j].run = id

\* The iterations of a slice that got past the stop check, and whether one of
\* them called the iteration function.
Entered(s0, s) ==
    (s.i - s0.i)
    + (IF s.out \in {"escaped", "thrown", "nan", "converged", "shadowThrown",
                     "lyapunov1", "lyapunov2"} THEN 1 ELSE 0)
Called(s0, s) ==
    s.i > s0.i \/ s.out \in {"thrown", "nan", "converged", "shadowThrown",
                             "lyapunov1", "lyapunov2"}

\* Mutation of SliceEvents: a slice that finds the run stopped ends silently.
SliceEventsSilentStop(out) ==
    CASE out \in {"escaped", "converged", "finished",
                  "lyapunov1", "lyapunov2", "lyapunov3"} -> << "renderStop" >>
      [] out \in {"thrown", "nan"} -> << "renderStop", "iterFuncRuntimeError" >>
      [] out = "yield" -> << "renderProgress" >>
      [] OTHER -> << >>

\* Mutation of SliceEvents: the fault is reported before renderStop.
SliceEventsFaultFirst(out) ==
    CASE out \in {"stopped", "escaped", "converged", "finished",
                  "lyapunov1", "lyapunov2", "lyapunov3"} -> << "renderStop" >>
      [] out \in {"thrown", "nan"} -> << "iterFuncRuntimeError", "renderStop" >>
      [] out = "yield" -> << "renderProgress" >>
      [] OTHER -> << >>

\* The events a slice triggers on the canvas, in order, by the way it ended.
SliceEvents(out) ==
    CASE out \in {"stopped", "escaped", "converged", "finished",
                  "lyapunov1", "lyapunov2", "lyapunov3"} -> << "renderStop" >>
      [] out \in {"thrown", "nan"} -> << "renderStop", "iterFuncRuntimeError" >>
      [] out = "yield" -> << "renderProgress" >>
      [] OTHER -> << >>

\* Mutation of putImageData: the buffer is put on the canvas as it was when
\* the slice began.
putImageDataEarly(out, s0, s) == IF out \in {"yield", "finished"} THEN s0.pix ELSE surface

\* this.context.putImageData(this.imageData, 0, 0), reached when the for loop
\* ends without a return and the average is not NaN: the canvas after a
\* slice that began in s0 and ended in s by out.
putImageData(out, s0, s) == IF out \in {"yield", "finished"} THEN s.pix ELSE surface

\* Mutation of runningAfter: the escape branch leaves this.running alone.
runningAfterEscapeKept(out) ==
    IF out \in {"stopped", "shadowThrown", "yield", "escaped"} THEN running ELSE FALSE

\* Mutation of runningAfter: the completion branch leaves this.running alone.
runningAfterCompletionKept(out) ==
    IF out \in {"stopped", "shadowThrown", "yield", "finished"} THEN running ELSE FALSE

\* this.running after a slice that ended by out: every return and throw
\* statement but the one of the stop check and the exception of the call for
\* the partner point is preceded by this.running = false.
runningAfter(out) == IF out \in {"stopped", "shadowThrown", "yield"} THEN running ELSE FALSE

\* Mutation of MoreToDo: the run goes on when i has reached the budget.
MoreToDoInclusive(s) == running /\ s.i <= iterations

\* if (this.running && i < this.iterations), after the slice that ended in s
MoreToDo(s) == running /\ s.i < iterations

\* Mutation of setImmediate: the next slice is queued twice.
setImmediateTwice(out, id) ==
    IF out = "yield"
    THEN Tail(queue) \o << [run |-> id, kind |-> "slice"], [run |-> id, kind |-> "slice"] >>
    ELSE Tail(queue)

\* The callback queue after the callback at its head has run updateFunc for
\* run id: setImmediate(updateFunc.bind(this)) when there is more to do.
setImmediate(out, id) ==
    IF out = "yield" THEN Append(Tail(queue), [run |-> id, kind |-> "slice"])
    ELSE Tail(queue)

\* function updateFunc(), called for run id; first is the events triggered
\* just before the call in the same callback.
updateFunc(id, first) ==
    \E s0 \in {[i |-> runs[id].i, x |-> runs[id].x, y |-> runs[id].y,
                xe |-> runs[id].xe, ye |-> runs[id].ye,
                previousX |-> runs[id].previousX, n |-> runs[id].lyapunovNumIter,
                lyap |-> lyapunov, pix |-> imageData, out |-> "go", wrote |-> FALSE,
                notFinite |-> obs[id].notFinite, samples |-> obs[id].samples,
                moved |-> obs[id].moved, view |-> obs[id].view]} :
    \E s \in {Loop(runs[id], s0, Min(iterations, SliceSize))} :
    \E avg \in {IF s.n # 0 THEN LDiv(s.lyap, s.n) ELSE s.lyap} :
    \E out \in {IF s.out # "go" THEN s.out
                ELSE IF s.n # 0 /\ avg.k = "nan" THEN "lyapunov3"
                ELSE IF MoreToDo(s) THEN "yield"
                ELSE "finished"} :
    LET o == obs[id]
    IN  /\ runs' = [runs EXCEPT ![id] = [@ EXCEPT !.i = s.i, !.x = s.x, !.y = s.y,
                                                  !.xe = s.xe, !.ye = s.ye,
                                                  !.previousX = s.previousX,
                                                  !.lyapunovNumIter = s.n]]
        /\ imageData' = s.pix
        /\ lyapunov' = IF out \in {"yield", "finished", "lyapunov3"} THEN avg ELSE s.lyap
        /\ surface' = putImageData(out, s0, s)
        /\ running' = runningAfter(out)
        /\ queue' = setImmediate(out, id)
        /\ obs' = [obs EXCEPT ![id] =
              [@ EXCEPT !.ev = o.ev \o first \o SliceEvents(out),
                        !.outcome = IF out = "yield" THEN o.outcome ELSE out,
                        !.uncaught = o.uncaught
                            + (IF out \in {"shadowThrown", "lyapunov1", "lyapunov2", "lyapunov3"}
                               THEN 1 ELSE 0),
                        !.fault = IF out \in {"thrown", "nan"}
                                  THEN << [x |-> s.x, y |-> s.y, i |-> s.i,
                                           exception |-> IF out = "thrown" THEN "e" ELSE "null"] >>
                                  ELSE o.fault,
                        !.progress = IF out = "yield"
                                     THEN Append(o.progress, << s.i, iterations >>)
                                     ELSE o.progress,
                        !.funcs = IF Called(s0, s) THEN o.funcs \cup {IterateOf(runs[id])}
                                  ELSE o.funcs,
                        !.params = IF Called(s0, s) THEN o.params \cup {ParamsOf(runs[id])}
                                   ELSE o.params,
                        !.wroteAfterStop = o.wroteAfterStop \/ (o.stopRequested /\ s.wrote),
                        !.itersAfterStop = o.itersAfterStop
                            + (IF o.stopRequested THEN Entered(s0, s) ELSE 0),
                        !.notFinite = s.notFinite,
                        !.samples = s.samples,
                        !.moved = s.moved,
                        !.final = IF out = "yield" THEN o.final
                                  ELSE << [imageData |-> s.pix, lyapunov |-> lyapunov'] >>,
                        !.emptyAtStart = IF first # << >> THEN imageData = NoPixels
                                         ELSE o.emptyAtStart,
                        !.runningAtEnd = IF out = "yield" THEN o.runningAtEnd
                                         ELSE << running' >>]]
        /\ last' = [act |-> "slice", run |-> id, wrote |-> s.wrote,
                    iters |-> Entered(s0, s), out |-> out]
        /\ UNCHANGED << iterations, engineVars, systems, calls >>

\* --------------------------------------------------------------- actions
\* The variables update() declares for a run that starts at the point (x, y).
Variables(x, y) ==
    [i |-> 0, sys |-> currentSystem, params |-> getParameterSet,
     colourFunc |-> getColourFunc,
     x |-> x, y |-> y,
     xe |-> Add(x, eta), ye |-> Add(y, eta),
     lyapunovNumIter |-> 0,
     left |-> colToX(0), right |-> colToX(CanvasWidth),
     top |-> rowToY(CanvasHeight), bottom |-> rowToY(0),
     previousX |-> Zero]

\* Mutation of Closure: a run starts at the point the run before it reached.
ClosureResumed ==
    IF runs = << >> THEN Variables(getSystem.x0, getSystem.y0)
    ELSE Variables(runs[Len(runs)].x, runs[Len(runs)].y)

\* The closure of a new run: x = sys.initialValues.x, y = sys.initialValues.y
Closure == Variables(getSystem.x0, getSystem.y0)

\* update(), as long as fewer than limit calls have been made: the closure
\* of the new run, this.lyapunov = 0, stop(), and the first setImmediate.
updateUpTo(limit) ==
    /\ Len(runs) < limit
    /\ LET sys == getSystem
       IN  /\ runs' = Append(runs, Closure)
           /\ obs' = Append(obs,
                 [ev |-> << >>, outcome |-> "", uncaught |-> 0, fault |-> << >>,
                  progress |-> << >>, funcs |-> {}, params |-> {},
                  func0 |-> sys.iterate, params0 |-> getParameterSet, budget0 |-> iterations,
                  idleAtUpdate |-> (queue = << >>),
                  afterFault |-> (\E j \in 1..Len(obs) : obs[j].outcome = "nan"),
                  notFinite |-> -1, samples |-> LFin(0, 1), moved |-> FALSE,
                  emptyAtStart |-> TRUE, final |-> << >>,
                  view |-> [zoom |-> zoom, centreX |-> centreX, centreY |-> centreY],
                  stopRequested |-> FALSE, wroteAfterStop |-> FALSE, itersAfterStop |-> 0,
                  runningAtEnd |-> << >>])
    /\ lyapunov' = LFin(0, 1)
    /\ running' = FALSE
    /\ queue' = Append(queue, [run |-> Len(runs) + 1, kind |-> "start"])
    /\ last' = [act |-> "update", run |-> Len(runs) + 1, wrote |-> FALSE, iters |-> 0, out |-> ""]
    /\ UNCHANGED << iterations, engineVars, systems, imageData, surface, calls >>

\* update()
update == updateUpTo(MaxRuns)

\* The outer setImmediate callback of update(): running = true, clearRect,
\* getImageData, and the inner setImmediate.
startCallback ==
    /\ queue # << >>
    /\ Head(queue).kind = "start"
    /\ running' = TRUE
    /\ surface' = NoPixels
    /\ imageData' = NoPixels
    /\ queue' = Append(Tail(queue), [run |-> Head(queue).run, kind |-> "begin"])
    /\ last' = [act |-> "start", run |-> Head(queue).run, wrote |-> FALSE, iters |-> 0, out |-> ""]
    /\ UNCHANGED << lyapunov, iterations, engineVars, systems, runs, obs, calls >>

\* The inner setImmediate callback: trigger renderStart, then updateFunc.
beginCallback ==
    /\ queue # << >>
    /\ Head(queue).kind = "begin"
    /\ updateFunc(Head(queue).run, << "renderStart" >>)

\* The setImmediate callback of a later slice: updateFunc.
sliceCallback ==
    /\ queue # << >>
    /\ Head(queue).kind = "slice"
    /\ updateFunc(Head(queue).run, << >>)

\* Mutation of stopUpTo: the call toggles this.running.
stopUpToToggling(limit) ==
    /\ calls.stop < limit
    /\ running' = ~running
    /\ calls' = [calls EXCEPT !.stop = @ + 1]
    /\ obs' = [id \in 1..Len(obs) |->
                 IF Pending(id) THEN [obs[id] EXCEPT !.stopRequested = TRUE] ELSE obs[id]]
    /\ last' = [act |-> "stop", run |-> 0, wrote |-> FALSE, iters |-> 0, out |-> "",
                repeated |-> (last.act = "stop")]
    /\ UNCHANGED << lyapunov, iterations, engineVars, systems, imageData, surface, runs, queue >>

\* stop(), as long as fewer than limit calls have been made (repeated: the
\* step before was a stop() call too).
stopUpTo(limit) ==
    /\ calls.stop < limit
    /\ running' = FALSE
    /\ calls' = [calls EXCEPT !.stop = @ + 1]
    /\ obs' = [id \in 1..Len(obs) |->
                 IF Pending(id) THEN [obs[id] EXCEPT !.stopRequested = TRUE] ELSE obs[id]]
    /\ last' = [act |-> "stop", run |-> 0, wrote |-> FALSE, iters |-> 0, out |-> "",
                repeated |-> (last.act = "stop")]
    /\ UNCHANGED << lyapunov, iterations, engineVars, systems, imageData, surface, runs, queue >>

\* stop()
stop == stopUpTo(MaxStops)

\* setIterations(newIterations)
setIterations(newIterations) ==
    /\ calls.edit < MaxEdits
    /\ iterations' = newIterations
    /\ calls' = [calls EXCEPT !.edit = @ + 1]
    /\ last' = [act |-> "setIterations", run |-> 0, wrote |-> FALSE, iters |-> 0, out |-> ""]
    /\ UNCHANGED << running, lyapunov, engineVars, systems, imageData, surface, runs, queue, obs >>

\* setZoom(newZoom)
setZoom(newZoom) ==
    /\ calls.edit < MaxEdits
    /\ zoom' = newZoom
    /\ calls' = [calls EXCEPT !.edit = @ + 1]
    /\ last' = [act |-> "setZoom", run |-> 0, wrote |-> FALSE, iters |-> 0, out |-> ""]
    /\ UNCHANGED << running, lyapunov, iterations, centreX, centreY, currentSystem,
                    currentParameterSet, colourModeIndex, systems, imageData, surface,
                    runs, queue, obs >>

\* zoomBy(factor): this.zoom *= factor
zoomBy(factor) ==
    /\ calls.edit < MaxEdits
    /\ zoom' = zoom * factor
    /\ calls' = [calls EXCEPT !.edit = @ + 1]
    /\ last' = [act |-> "zoomBy", run |-> 0, wrote |-> FALSE, iters |-> 0, out |-> ""]
    /\ UNCHANGED << running, lyapunov, iterations, centreX, centreY, currentSystem,
                    currentParameterSet, colourModeIndex, systems, imageData, surface,
                    runs, queue, obs >>

\* setCentre(rl, im)
setCentre(rl, im) ==
    /\ calls.edit < MaxEdits
    /\ centreX' = rl
    /\ centreY' = im
    /\ calls' = [calls EXCEPT !.edit = @ + 1]
    /\ last' = [act |-> "setCentre", run |-> 0, wrote |-> FALSE, iters |-> 0, out |-> ""]
    /\ UNCHANGED << running, lyapunov, iterations, zoom, currentSystem,
                    currentParameterSet, colourModeIndex, systems, imageData, surface,
                    runs, queue, obs >>

\* A caller evaluates xToCol(colToX(c)) for a column c of the canvas.  (The
\* call changes nothing in the engine, so one call per engine state is
\* explored.)
columnRoundTrip(c) ==
    /\ last.act \notin {"columnRoundTrip", "rowRoundTrip"}
    /\ last' = [act |-> "columnRoundTrip", run |-> 0, wrote |-> FALSE, iters |-> 0,
                out |-> "", arg |-> c, val |-> xToCol(colToX(c))]
    /\ UNCHANGED << running, lyapunov, iterations, engineVars, systems, imageData,
                    surface, runs, queue, obs, calls >>

\* A caller evaluates yToRow(rowToY(r)) for a row r of the canvas.
rowRoundTrip(r) ==
    /\ last.act \notin {"columnRoundTrip", "rowRoundTrip"}
    /\ last' = [act |-> "rowRoundTrip", run |-> 0, wrote |-> FALSE, iters |-> 0,
                out |-> "", arg |-> r, val |-> yToRow(rowToY(r))]
    /\ UNCHANGED << running, lyapunov, iterations, engineVars, systems, imageData,
                    surface, runs, queue, obs, calls >>

\* setCustomIterationFunction(func): the iterate of the last system
setCustomIterationFunction(func) ==
    /\ calls.edit < MaxEdits
    /\ systems' = [systems EXCEPT ![Len(systems)].iterate = func]
    /\ calls' = [calls EXCEPT !.edit = @ + 1]
    /\ last' = [act |-> "setFunction", run |-> 0, wrote |-> FALSE, iters |-> 0, out |-> ""]
    /\ UNCHANGED << running, lyapunov, iterations, engineVars, imageData, surface, runs, queue, obs >>

\* Mutation of setSystemIndex: the centre is reset with the zoom.
setSystemIndexRecentring(newSystemIdx) ==
    /\ currentSystem' = newSystemIdx
    /\ zoom' = systems[newSystemIdx + 1].initialZoom
    /\ centreX' = Zero
    /\ centreY' = Zero
    /\ last' = [act |-> "setSystemIndex", run |-> 0, wrote |-> FALSE, iters |-> 0, out |-> "",
                arg |-> newSystemIdx]
    /\ UNCHANGED << running, lyapunov, iterations, currentParameterSet, colourModeIndex,
                    systems, imageData, surface, runs, queue, obs, calls >>

\* setSystemIndex(newSystemIdx)
setSystemIndex(newSystemIdx) ==
    /\ currentSystem' = newSystemIdx
    /\ zoom' = systems[newSystemIdx + 1].initialZoom
    /\ last' = [act |-> "setSystemIndex", run |-> 0, wrote |-> FALSE, iters |-> 0, out |-> "",
                arg |-> newSystemIdx]
    /\ UNCHANGED << running, lyapunov, iterations, centreX, centreY, currentParameterSet,
                    colourModeIndex, systems, imageData, surface, runs, queue, obs, calls >>

\* setParameterSetIndex(newParamSetIdx)
setParameterSetIndex(newParamSetIdx) ==
    /\ currentParameterSet' = newParamSetIdx
    /\ last' = [act |-> "setParameterSetIndex", run |-> 0, wrote |-> FALSE, iters |-> 0,
                out |-> "", arg |-> newParamSetIdx]
    /\ UNCHANGED << running, lyapunov, iterations, zoom, centreX, centreY, currentSystem,
                    colourModeIndex, systems, imageData, surface, runs, queue, obs, calls >>

\* setColourModeIndex(newColourModeIndex)
setColourModeIndex(newColourModeIndex) ==
    /\ colourModeIndex' = newColourModeIndex
    /\ last' = [act |-> "setColourModeIndex", run |-> 0, wrote |-> FALSE, iters |-> 0,
                out |-> "", arg |-> newColourModeIndex]
    /\ UNCHANGED << running, lyapunov, iterations, zoom, centreX, centreY, currentSystem,
                    currentParameterSet, systems, imageData, surface, runs, queue, obs, calls >>

\* Mutation of setCustomParameterSet: the set is pushed after the last one.
setCustomParameterSetPushed(parameterSet) ==
    /\ calls.edit < MaxEdits
    /\ systems' = [systems EXCEPT ![currentSystem + 1].parameterSets = Append(@, parameterSet)]
    /\ calls' = [calls EXCEPT !.edit = @ + 1]
    /\ last' = [act |-> "setParameters", run |-> 0, wrote |-> FALSE, iters |-> 0, out |-> ""]
    /\ UNCHANGED << running, lyapunov, iterations, engineVars, imageData, surface, runs, queue, obs >>

\* setCustomParameterSet(parameterSet): the last set of the current system
setCustomParameterSet(parameterSet) ==
    /\ calls.edit < MaxEdits
    /\ systems' = [systems EXCEPT
                     ![currentSystem + 1].parameterSets[Len(systems[currentSystem + 1].parameterSets)]
                        = parameterSet]
    /\ calls' = [calls EXCEPT !.edit = @ + 1]
    /\ last' = [act |-> "setParameters", run |-> 0, wrote |-> FALSE, iters |-> 0, out |-> ""]
    /\ UNCHANGED << running, lyapunov, iterations, engineVars, imageData, surface, runs, queue, obs >>

\* The number of Attractor instances constructed so far: each construction
\* pushes one parameter set to every system of the shared catalogue.
Instances == Len(systems[1].parameterSets) - Len(Catalogue[1].parameterSets)

\* new AttractorCanvas.Attractor($canvas) once more, for another instance:
\* the systems array is a property of the prototype, shared by all the
\* instances, and the constructor pushes a clone of the last parameter set to
\* each of its systems.  The fields of the instance already there are its own.
Attractor ==
    /\ Instances < MaxInstances
    /\ systems' = [k \in 1..NumSystems |->
                     [systems[k] EXCEPT !.parameterSets =
                         Append(@, systems[k].parameterSets[Len(systems[k].parameterSets)])]]
    /\ last' = [act |-> "new", run |-> 0, wrote |-> FALSE, iters |-> 0, out |-> ""]
    /\ UNCHANGED << running, lyapunov, iterations, engineVars, imageData, surface, runs, queue,
                    obs, calls >>

\* ------------------------------------------------------- initial states
\* new AttractorCanvas.Attractor($canvas): the fields set by the constructor
\* and the custom parameter set it appends to every system.
Constructed ==
    /\ running = FALSE
    /\ lyapunov = LUndefined
    /\ centreX = Zero
    /\ centreY = Zero
    /\ iterations = 50000
    /\ zoom = Min(CanvasWidth, CanvasHeight) \div ConstructorZoomDivisor
    /\ currentSystem = 0
    /\ currentParameterSet = 0
    /\ colourModeIndex = 0
    /\ systems = [k \in 1..NumSystems |->
                    [Catalogue[k] EXCEPT !.parameterSets =
                        Append(@, Catalogue[k].parameterSets[Len(Catalogue[k].parameterSets)])]]
    /\ imageData = NoPixels
    /\ surface = NoPixels
    /\ runs = << >>
    /\ queue = << >>
    /\ obs = << >>
    /\ last = [act |-> "new", run |-> 0, wrote |-> FALSE, iters |-> 0, out |-> ""]
    /\ calls = [stop |-> 0, edit |-> 0]


\* The state after
\*   new AttractorCanvas.Attractor($canvas); setSystemIndex(7);
\*   setParameterSetIndex(set); setCustomParameterSet(params);
\*   setCustomIterationFunction(func); setIterations(n)
\* i.e. the Custom system selected, with the caller's function and budget.
Selected(func, set, params, n) ==
    /\ running = FALSE
    /\ lyapunov = LUndefined
    /\ centreX = Zero
    /\ centreY = Zero
    /\ iterations = n
    /\ zoom = Catalogue[NumSystems].initialZoom
    /\ currentSystem = NumSystems - 1
    /\ currentParameterSet = set
    /\ colourModeIndex = 0
    /\ systems = [k \in 1..NumSystems |->
                    IF k < NumSystems
                    THEN [Catalogue[k] EXCEPT !.parameterSets =
                            Append(@, Catalogue[k].parameterSets[Len(Catalogue[k].parameterSets)])]
                    ELSE [Catalogue[k] EXCEPT !.parameterSets = Append(@, params),
                                              !.iterate = func]]
    /\ imageData = NoPixels
    /\ surface = NoPixels
    /\ runs = << >>
    /\ queue = << >>
    /\ obs = << >>
    /\ last = [act |-> "new", run |-> 0, wrote |-> FALSE, iters |-> 0, out |-> ""]
    /\ calls = [stop |-> 0, edit |-> 0]

\* The parameter set the constructor appends to Custom: a clone of {}
CustomClone == Catalogue[NumSystems].parameterSets[1]

\* Scheduling: update() and stop() at any moment between the callbacks, for
\* functions that always return a valid point.
InitSched ==
    \E func \in {"flip", "swap", "far"} : \E n \in {1, 1000, 1500} :
        Selected(func, 0, CustomClone, n)
NextSched == update \/ stop \/ startCallback \/ beginCallback \/ sliceCallback
SpecSched == InitSched /\ [][NextSched]_vars

\* The same, with the event loop running the callback at the head of the
\* setImmediate queue whenever there is one.  EventLoop is weak fairness of
\* startCallback \/ beginCallback \/ sliceCallback written out: the three are
\* the steps that set last.act to "start" or "slice", and one of them is
\* enabled exactly when the queue is not empty.
CallbackStep == last'.act \in {"start", "slice"}
EventLoop == []<>(queue = << >>) \/ []<><<CallbackStep>>_vars
SpecSchedFair == SpecSched /\ WF_vars(startCallback) /\ EventLoop

\* Editing: the custom function and the custom parameter set replaced at any
\* moment between the callbacks of a run of function(x, y, p) {
\* return {x: p.a - x, y: p.a - y}; } on the custom parameter set {a: 1}.
EditFunctions == {"swap", "far"}
EditParameterSets == {<<"a", -1>>, <<"b", 1>>}
InitCustom == \E n \in {1500} : Selected("pflip", 1, <<"a", 1>>, n)
NextCustom ==
    \/ update
    \/ startCallback
    \/ beginCallback
    \/ sliceCallback
    \/ \E func \in EditFunctions : setCustomIterationFunction(func)
    \/ \E parameterSet \in EditParameterSets : setCustomParameterSet(parameterSet)
SpecCustom == InitCustom /\ [][NextCustom]_vars

\* The mapping between pixels and the plane, for the viewports of the
\* constructor (zoom 100) and of the Custom system (zoom 30) and the zooms
\* set from there, all centred on the origin.
ViewZooms == {15, 60, 120}
InitView ==
    \/ Constructed
    \/ Selected("swap", 0, CustomClone, 50000)
NextView ==
    \/ \E newZoom \in ViewZooms : setZoom(newZoom)
    \/ \E c \in 0..(CanvasWidth - 1) : columnRoundTrip(c)
    \/ \E r \in 0..(CanvasHeight - 1) : rowRoundTrip(r)
SpecView == InitView /\ [][NextView]_vars

\* Faults: a custom function that throws or returns an invalid point, on the
\* call for the main point or on the call for the partner point only; a
\* well-behaved function may be installed at any moment between callbacks.
FaultInputs == {<<"nanx", 1500>>, <<"inf", 1>>, <<"throws", 1>>, <<"gridOnly", 1>>,
                <<"gridNaN", 1500>>}
InitFault == \E in \in FaultInputs : Selected(in[1], 0, CustomClone, in[2])
NextFault ==
    \/ update
    \/ startCallback
    \/ beginCallback
    \/ sliceCallback
    \/ setCustomIterationFunction("flip")
SpecFault == InitFault /\ [][NextFault]_vars

\* One run at a time: update() is called only when no callback of an earlier
\* run is waiting, on a custom function and budget of RunInputs; stop() and
\* the setters of the budget and of the viewport are called at any moment
\* between the callbacks.
RunInputs == {<<"flip", 3000>>, <<"identity", 52>>, <<"identity", 1500>>,
              <<"scale", 1500>>, <<"edge", 52>>}
RunBudgets == {1, 2000}
idleUpdate == queue = << >> /\ update
InitRun == \E in \in RunInputs : Selected(in[1], 0, CustomClone, in[2])
NextRun ==
    \/ idleUpdate
    \/ stop
    \/ startCallback
    \/ beginCallback
    \/ sliceCallback
    \/ \E newIterations \in RunBudgets : setIterations(newIterations)
    \/ setZoom(2 * CustomInitialZoom)
    \/ zoomBy(2)
    \/ setCentre(One, One)
SpecRun == InitRun /\ [][NextRun]_vars

\* Configuration: the selectors and the custom-slot setters called in any
\* order on the engine as constructed, with no run.  Every index is a valid
\* one at the moment it is passed.
InitCatalog == Constructed
NextCatalog ==
    \/ \E newSystemIdx \in 0..(NumSystems - 1) : setSystemIndex(newSystemIdx)
    \/ \E newParamSetIdx \in 0..2 :
          /\ newParamSetIdx < Len(getSystem.parameterSets)
          /\ setParameterSetIndex(newParamSetIdx)
    \/ \E newColourModeIndex \in {0, 1} : setColourModeIndex(newColourModeIndex)
    \/ \E func \in EditFunctions : setCustomIterationFunction(func)
    \/ \E parameterSet \in EditParameterSets : setCustomParameterSet(parameterSet)
    \/ setCentre(One, One)
    \/ setIterations(1)
SpecCatalog == InitCatalog /\ [][NextCatalog]_vars

\* Instances: further Attractor instances constructed at any moment between
\* the selector and custom-set calls on the first one.
InitInstances == Constructed
NextInstances ==
    \/ Attractor
    \/ \E newSystemIdx \in 0..(NumSystems - 1) : setSystemIndex(newSystemIdx)
    \/ \E newParamSetIdx \in 0..2 :
          /\ newParamSetIdx < Len(getSystem.parameterSets)
          /\ setParameterSetIndex(newParamSetIdx)
    \/ \E parameterSet \in EditParameterSets : setCustomParameterSet(parameterSet)
SpecInstances == InitInstances /\ [][NextInstances]_vars

\* Outcomes: runs that complete, are stopped, escape, converge or fault, with
\* update() and stop() at any moment between the callbacks.
OutcomeInputs == {<<"flip", 1500>>, <<"far", 1500>>, <<"identity", 52>>, <<"throws", 1>>,
                  <<"nanx", 1>>}
InitOutcome == \E in \in OutcomeInputs : Selected(in[1], 0, CustomClone, in[2])
NextOutcome == update \/ stop \/ startCallback \/ beginCallback \/ sliceCallback
SpecOutcome == InitOutcome /\ [][NextOutcome]_vars

\* Repeated stop() calls: one more call than elsewhere, at any moment, idle
\* or between the callbacks of a run.
InitStop == \E n \in {1, 1500} : Selected("flip", 0, CustomClone, n)
NextStop ==
    \/ update
    \/ stopUpTo(MaxStops + 1)
    \/ startCallback
    \/ beginCallback
    \/ sliceCallback
SpecStop == InitStop /\ [][NextStop]_vars

\* Repetition: one more update() call than elsewhere, each made when no
\* callback is waiting; the custom function is replaced, and stop() called,
\* at any moment.
RepeatInputs == {<<"flip", 1>>, <<"flip", 2000>>, <<"identity", 2000>>}
InitRepeat == \E in \in RepeatInputs : Selected(in[1], 0, CustomClone, in[2])
NextRepeat ==
    \/ queue = << >> /\ updateUpTo(MaxRuns + 1)
    \/ stop
    \/ startCallback
    \/ beginCallback
    \/ sliceCallback
    \/ setCustomIterationFunction("flip")
SpecRepeat == InitRepeat /\ [][NextRepeat]_vars


\* ================================================================ claims
Runs == 1..Len(runs)
Ended(id) == ~Pending(id)
Stops(id) == Count(obs[id].ev, "renderStop")
Faults(id) == Count(obs[id].ev, "iterFuncRuntimeError")

\* Every value of the model is on its grid (the inputs keep the arithmetic exact).
Representable ==
    /\ lyapunov.k # "unrep"
    /\ \A id \in Runs : /\ runs[id].x.k # "unrep" /\ runs[id].y.k # "unrep"
                        /\ runs[id].xe.k # "unrep" /\ runs[id].ye.k # "unrep"

\* C1: once update() has been called for a newer run, no slice of an older run
\* writes a pixel to the buffer: every slice that writes belongs to the run of
\* the most recent update() call.
C1_OlderRunNeverWrites == last.wrote => last.run = Len(runs)

\* C2: a run for which stop() was requested before it ended writes no pixel
\* after the request, executes at most one slice of further iterations, and
\* has triggered renderStop once it has ended.
C2_StopTakesEffect ==
    \A id \in Runs :
        obs[id].stopRequested =>
            /\ ~obs[id].wroteAfterStop
            /\ obs[id].itersAfterStop <= SliceSize
            /\ (Ended(id) => Stops(id) = 1)

\* C3: each run triggers renderStop exactly once: never while one of its
\* callbacks is still pending, and exactly once by the time it has ended.
C3_OneRenderStopPerRun ==
    \A id \in Runs : Stops(id) = IF Ended(id) THEN 1 ELSE 0

\* C3 witness: a superseded run and the run that superseded it have both
\* ended, the first stopped and the second completed, one renderStop each.
C3_Witness ==
    /\ Len(runs) >= 2
    /\ Ended(1) /\ Ended(2)
    /\ obs[1].outcome = "stopped" /\ obs[2].outcome = "finished"
    /\ Stops(1) = 1 /\ Stops(2) = 1

\* C4: every iteration of a run calls the function that was installed when
\* update() was called for the run, whatever setCustomIterationFunction
\* installs while the run is in progress.
C4_FunctionFixedAtStart ==
    \A id \in Runs : obs[id].funcs \subseteq {obs[id].func0}

\* C5: every iteration of a run is computed with the parameter set that was
\* selected when update() was called for the run, whatever
\* setCustomParameterSet installs while the run is in progress; with the
\* function p.a - x and {a: 1} the point stays on the orbit (0,0), (1,1).
C5_ParametersFixedAtStart ==
    \A id \in Runs :
        /\ obs[id].params \subseteq {obs[id].params0}
        /\ (obs[id].params0 = <<"a", 1>> /\ obs[id].funcs \subseteq {"pflip"}) =>
              /\ runs[id].x \in {Zero, One}
              /\ runs[id].y = runs[id].x

\* C5 witness: a slice of a run has just executed iterations although the
\* custom parameter set was replaced after update() was called for the run.
C5_Witness ==
    /\ last.act = "slice" /\ last.iters > 0
    /\ last.run \in Runs
    /\ runs[last.run].i > SliceSize
    /\ getParameterSet # obs[last.run].params0
    /\ obs[last.run].params = {obs[last.run].params0}
    /\ obs[last.run].funcs = {"pflip"}

\* C6: a run never executes an iteration with an index at or above the budget
\* it was started with, and a run that ends Completed has executed exactly
\* the iterations 0..n-1.
C6_IterationBudget ==
    \A id \in Runs :
        /\ runs[id].i <= obs[id].budget0
        /\ (obs[id].outcome = "finished" => runs[id].i = obs[id].budget0)

\* C7: a run that ended because the function threw or returned an invalid
\* point, on the call for the main point or for the partner point, has left
\* running == false and has triggered renderStop.
C7_FaultStopsEngine ==
    \A id \in Runs :
        obs[id].outcome \in {"thrown", "nan", "shadowThrown", "lyapunov1", "lyapunov2"} =>
            /\ obs[id].runningAtEnd = << FALSE >>
            /\ Stops(id) = 1

\* C8: once a call for the main point has returned a coordinate that is not a
\* finite number (NaN, +Infinity or -Infinity), the run has ended with the
\* fault notification at that iteration: it executes no later iteration and
\* has no other outcome.
C8_InvalidPointFaults ==
    \A id \in Runs :
        obs[id].notFinite # -1 =>
            /\ obs[id].outcome = "nan"
            /\ runs[id].i = obs[id].notFinite
            /\ Faults(id) = 1

\* C9: no callback of a run ends by an exception, and a run that ended by a
\* fault (the function threw on either call, returned an invalid point, or
\* the Lyapunov sum became NaN) has triggered iterFuncRuntimeError exactly
\* once, with the point it had reached.
C9_FaultsAreNotified ==
    \A id \in Runs :
        /\ obs[id].uncaught = 0
        /\ obs[id].outcome \in {"thrown", "nan", "shadowThrown",
                                "lyapunov1", "lyapunov2", "lyapunov3"} =>
              /\ Faults(id) = 1
              /\ Len(obs[id].fault) = 1
              /\ obs[id].fault[1].x = runs[id].x /\ obs[id].fault[1].y = runs[id].y

\* C10: a run whose first call of the function returned NaN as x has ended
\* at iteration 0 with renderStop and one iterFuncRuntimeError carrying the
\* initial point and a null exception, and running == false; a run started
\* by update() after such a fault, with the engine idle and not stopped or
\* superseded, ends with running == false and one renderStop, and with a
\* well-behaved function it completes its budget.
C10_FaultOnFirstCall ==
    \A id \in Runs :
        /\ (obs[id].notFinite = 0 /\ "nanx" \in obs[id].funcs) =>
              /\ Ended(id)
              /\ obs[id].outcome = "nan"
              /\ runs[id].i = 0
              /\ obs[id].ev = << "renderStart", "renderStop", "iterFuncRuntimeError" >>
              /\ obs[id].fault = << [x |-> getSystem.x0, y |-> getSystem.y0, i |-> 0,
                                     exception |-> "null"] >>
              /\ obs[id].runningAtEnd = << FALSE >>
        /\ (/\ obs[id].afterFault /\ obs[id].idleAtUpdate
            /\ id = Len(runs) /\ Ended(id)) =>
              /\ Stops(id) = 1
              /\ obs[id].runningAtEnd = << FALSE >>
              /\ running = FALSE
              /\ obs[id].funcs = {"flip"} =>
                    /\ obs[id].outcome = "finished"
                    /\ runs[id].i >= obs[id].budget0

\* C10 witness: the first run faulted on its first call; the next update(),
\* with a well-behaved function installed, has run to completion.
C10_Witness ==
    /\ Len(runs) >= 2
    /\ obs[1].funcs = {"nanx"} /\ obs[1].outcome = "nan" /\ runs[1].i = 0
    /\ obs[2].afterFault /\ obs[2].funcs = {"flip"}
    /\ obs[2].outcome = "finished"

\* C13: for every column c of the canvas, xToCol(colToX(c)) is c.
C13_ColumnRoundTrip ==
    last.act = "columnRoundTrip" => last.val = last.arg

\* C14: for every row r of the canvas, yToRow(rowToY(r)) is r.
C14_RowRoundTrip ==
    last.act = "rowRoundTrip" => last.val = last.arg

\* The slice just run ended its run with an outcome other than a fault.
TerminalOutcomes == {"finished", "stopped", "escaped", "converged"}

\* C11: when a run ends with an outcome other than a fault and has taken at
\* least one Lyapunov sample, getLyapunovExponent() is the sum of the samples
\* ln(d / d0) of the run divided by their number.
C11_LyapunovIsAverage ==
    (last.act = "slice" /\ last.out \in TerminalOutcomes
     /\ runs[last.run].lyapunovNumIter > 0)
    => lyapunov = LDiv(obs[last.run].samples, runs[last.run].lyapunovNumIter)

C15_StaleSlicesAreSilent ==
    (last.act = "slice" /\ last.run < Len(runs))
    => /\ ~last.wrote
       /\ SliceEvents(last.out) = << >>
       /\ last.iters = 0

\* C16: setZoom, zoomBy, setCentre and setIterations leave the run in
\* progress alone: every pixel is written where the viewport of the moment of
\* update() puts it, and a run that ends Completed has executed the budget of
\* the moment of update() (up to the end of its last slice).
C16_SettersLeaveRunAlone ==
    \A id \in Runs :
        /\ ~obs[id].moved
        /\ (Ended(id) /\ obs[id].outcome = "finished")
           => /\ runs[id].i >= obs[id].budget0
              /\ runs[id].i < obs[id].budget0 + SliceSize

\* C17: after every slice, the last of a run included, the canvas shows
\* every pixel written to the buffer.
C17_FlushAfterEverySlice == last.act = "slice" => surface = imageData

\* C18: while a run waits for its next slice, the canvas shows exactly the
\* buffer with every pixel written so far (the flush came after all the
\* writes of the slice before, and no write has come since), and the latest
\* renderProgress carries the iteration index that slice ended on.
C18_FlushOrdering ==
    \A id \in Runs :
        (queue # << >> /\ Head(queue) = [run |-> id, kind |-> "slice"])
        => /\ surface = imageData
           /\ obs[id].progress # << >>
           /\ obs[id].progress[Len(obs[id].progress)][1] = runs[id].i

C18_Witness ==
    /\ last.act = "slice" /\ last.out = "yield" /\ last.wrote
    /\ queue = << [run |-> last.run, kind |-> "slice"] >>
    /\ surface # NoPixels
    /\ Len(obs[last.run].progress) = 2

\* A run of function func whose budget of the moment of update() is above 51
\* and is still the budget, and that no stop() call has reached.
Undisturbed(id, func) ==
    /\ obs[id].func0 = func
    /\ obs[id].budget0 > minIterations + 1
    /\ iterations = obs[id].budget0
    /\ ~obs[id].stopRequested

\* C19: a run of the identity function with a budget above 51 ends in the
\* iteration with index 51, as a point attractor, and leaves running false.
C19_IdentityConvergesAt51 ==
    (last.act = "slice" /\ Undisturbed(last.run, "identity"))
    => /\ last.out = "converged"
       /\ runs[last.run].i = minIterations + 1
       /\ obs[last.run].runningAtEnd = << FALSE >>
       /\ ~running

C19_Witness ==
    /\ last.act = "slice" /\ Undisturbed(last.run, "identity")
    /\ obs[last.run].budget0 = minIterations + 2
    /\ last.out = "converged"

\* C20 as stated: a run of function(x, y) { return {x: x * 1e10, y: y * 1e10}; }
\* on the Custom system ends Escaped before it has used its budget.
C20_ScaleEscapes ==
    (last.act = "slice" /\ Undisturbed(last.run, "scale"))
    => /\ last.out = "escaped"
       /\ runs[last.run].i < obs[last.run].budget0

\* C20, amended: the Custom system starts at (0, 0), which the function maps
\* to itself, so the run never leaves the origin and ends as a point
\* attractor in the iteration with index 51.
C20_ScaleConvergesAtOrigin ==
    (last.act = "slice" /\ Undisturbed(last.run, "scale"))
    => /\ last.out = "converged"
       /\ runs[last.run].i = minIterations + 1
       /\ runs[last.run].x = Zero /\ runs[last.run].y = Zero
       /\ ~running

C20_Witness ==
    /\ last.act = "slice" /\ Undisturbed(last.run, "scale")
    /\ last.out = "converged" /\ last.wrote
    /\ obs[last.run].funcs = {"scale"}

\* C22: after setCustomIterationFunction(func) the Custom system is the
\* current system, its first parameter set is the current set, and
\* getIterationFunction() is func.
C22_CustomFunctionSelectsCustom ==
    last.act = "setFunction"
    => /\ currentSystem = NumSystems - 1
       /\ currentParameterSet = 0
       /\ getIterationFunction = systems[NumSystems].iterate

\* C23: setSystemIndex(k) sets the zoom to systems[k].initialZoom and leaves
\* the centre, the iteration budget and the colour mode as they were.
C23_SystemIndexResetsZoomOnly ==
    [][last'.act = "setSystemIndex"
       => /\ currentSystem' = last'.arg
          /\ zoom' = systems[last'.arg + 1].initialZoom
          /\ UNCHANGED << centreX, centreY, iterations, colourModeIndex >>]_vars

C23_Witness ==
    /\ last.act = "setSystemIndex" /\ last.arg = 2
    /\ zoom = 30 /\ centreX = One /\ centreY = One

\* C24: whatever setCustomParameterSet and setCustomIterationFunction calls
\* were made, the catalogue has the same systems in the same order, every
\* system has its built-in parameter sets followed by one custom set, and
\* every built-in set and built-in iteration function is as in the source.
C24_CatalogueShapeIsStable ==
    /\ Len(systems) = NumSystems
    /\ \A k \in 1..NumSystems :
          /\ systems[k].name = Catalogue[k].name
          /\ systems[k].initialZoom = Catalogue[k].initialZoom
          /\ systems[k].x0 = Catalogue[k].x0 /\ systems[k].y0 = Catalogue[k].y0
          /\ Len(systems[k].parameterSets) = Len(Catalogue[k].parameterSets) + 1
          /\ \A j \in 1..Len(Catalogue[k].parameterSets) :
                systems[k].parameterSets[j] = Catalogue[k].parameterSets[j]
          /\ k < NumSystems => systems[k].iterate = Catalogue[k].iterate

C24_Witness ==
    /\ last.act = "setParameters" /\ currentSystem = 2
    /\ systems[3].parameterSets[Len(systems[3].parameterSets)] = << "a", -1 >>

\* C26: when a run ends without a fault and without a Lyapunov sample,
\* getLyapunovExponent() is undefined, not a number.
C26_NoSampleNoEstimate ==
    (last.act = "slice" /\ last.out \in TerminalOutcomes
     /\ runs[last.run].lyapunovNumIter = 0)
    => lyapunov = LUndefined

\* C27: every pixel written is a pixel of the canvas: its column is in
\* 0 .. W - 1 and its row in 0 .. H - 1.
C27_PixelWritesInRange ==
    \A p \in DOMAIN imageData :
        /\ p[1] >= 0 /\ p[1] < CanvasWidth
        /\ p[2] >= 0 /\ p[2] < CanvasHeight

\* C28: the shadow point is advanced in every iteration that does not end
\* the run; after the iteration with index 0 it is f applied to the initial
\* shadow point (x0 + eta, y0 + eta).
C28_ShadowAdvances ==
    (last.act = "slice" /\ last.out \in {"yield", "finished"} /\ runs[last.run].i = 1)
    => LET run == runs[last.run]
           sys == systems[run.sys + 1]
           nexte == Apply(IterateOf(run), Add(sys.x0, eta), Add(sys.y0, eta), ParamsOf(run))
       IN  run.xe = nexte.x /\ run.ye = nexte.y

\* C29: when renderStart is triggered for a run, the buffer holds no pixel
\* written by any run.
C29_BufferEmptyAtRenderStart == \A id \in Runs : obs[id].emptyAtStart

\* C30: whenever a slice triggers renderStop, whatever the outcome, it
\* leaves running false and no callback of its run in the queue; this holds
\* of every run that has triggered renderStop.
C30_IdleAtRenderStop ==
    /\ (last.act = "slice" /\ Count(SliceEvents(last.out), "renderStop") > 0)
       => ~running /\ ~Pending(last.run)
    /\ \A id \in Runs :
          Stops(id) > 0 => obs[id].runningAtEnd = << FALSE >> /\ ~Pending(id)

C30_Witness ==
    /\ last.act = "slice" /\ last.out = "escaped" /\ last.run = 2
    /\ Stops(1) > 0 /\ Stops(2) > 0

\* The events triggered so far, run by run.
Events == [id \in Runs |-> obs[id].ev]

\* C25: a stop() call triggers no event and leaves running false; a stop()
\* call that follows a stop() call changes nothing in the engine, so that
\* two calls in a row leave the state one call leaves.
C25_StopIsIdempotent ==
    [][last'.act = "stop"
       => /\ ~running'
          /\ Events' = Events
          /\ last.act = "stop"
             => UNCHANGED << running, lyapunov, iterations, engineVars, systems,
                             imageData, surface, runs, queue >>]_vars

C25_Witness ==
    /\ last.act = "stop" /\ last.repeated
    /\ \E id \in Runs : Pending(id) /\ runs[id].i = SliceSize

\* A run that reached its end with the function it started with and without
\* a stop() call; two runs started on the same system, parameter set,
\* function, viewport, colour mode and budget.
LeftToRun(id) ==
    /\ obs[id].final # << >>
    /\ ~obs[id].stopRequested
    /\ obs[id].funcs = {obs[id].func0}
SameInputs(a, b) ==
    /\ runs[a].sys = runs[b].sys
    /\ obs[a].func0 = obs[b].func0
    /\ obs[a].params0 = obs[b].params0
    /\ obs[a].view = obs[b].view
    /\ runs[a].colourFunc = runs[b].colourFunc
    /\ obs[a].budget0 = obs[b].budget0

\* C21: two runs with the same inputs, each left to run to its end, leave
\* the same pixel buffer and the same Lyapunov estimate, whatever ran before
\* each of them.
C21_Deterministic ==
    \A a, b \in Runs :
        (LeftToRun(a) /\ LeftToRun(b) /\ SameInputs(a, b)) => obs[a].final = obs[b].final

C21_Witness ==
    /\ Len(runs) = 3
    /\ obs[1].func0 = "identity"
    /\ LeftToRun(2) /\ LeftToRun(3) /\ SameInputs(2, 3)
    /\ runs[3].lyapunovNumIter > 0
    /\ obs[3].final[1].imageData # NoPixels

\* renderStart, then renderProgress any number of times, then renderStop,
\* then at most one iterFuncRuntimeError, or a beginning of that sequence.
InOrder(ev) ==
    \A j \in 1..Len(ev) :
        CASE ev[j] = "renderStart" -> j = 1
          [] ev[j] \in {"renderProgress", "renderStop"} ->
                j > 1 /\ \A k \in 2..(j - 1) : ev[k] = "renderProgress"
          [] OTHER -> j = Len(ev) /\ j > 1 /\ ev[j - 1] = "renderStop"

C32_ProgressFraction ==
    \A id \in Runs :
        /\ Count(obs[id].ev, "renderProgress") = Len(obs[id].progress)
        /\ \A k \in 1..Len(obs[id].progress) :
              LET p == obs[id].progress[k]
              IN  /\ 0 < p[1] /\ p[1] < p[2]
                  /\ k > 1 => obs[id].progress[k - 1][1] < p[1]
                  /\ calls.edit = 0 => p[2] = obs[id].budget0 /\ p[1] = k * SliceSize

C32_Witness ==
    /\ calls.edit = 0
    /\ \E id \in Runs : /\ obs[id].outcome = "finished"
                         /\ obs[id].progress = << << SliceSize, 3 * SliceSize >>,
                                                   << 2 * SliceSize, 3 * SliceSize >> >>

\* No callback is waiting and running is false.
Quiescent == queue = << >> /\ ~running

\* C33: once the update() and stop() calls have ceased, the engine comes to
\* a state with no callback waiting and running false, and it leaves such a
\* state by an update() call only.
C33_Quiescence ==
    /\ <>[]Quiescent
    /\ [][(Quiescent /\ last'.act # "update") => Quiescent']_vars

C33_Witness ==
    /\ Quiescent
    /\ Len(runs) = MaxRuns
    /\ calls.stop = MaxStops
    /\ \E id \in Runs : obs[id].outcome = "finished" /\ runs[id].i = 2 * SliceSize

\* C34: the run of the latest update() call, when no stop() call has come
\* since and its function neither escapes, converges nor faults, executes
\* its whole budget and ends Completed.
C34_LatestRunCompletes ==
    (runs # << >> /\ obs[Len(runs)].func0 = "flip" /\ obs[Len(runs)].final # << >>
     /\ ~obs[Len(runs)].stopRequested)
    => /\ obs[Len(runs)].outcome = "finished"
       /\ runs[Len(runs)].i >= obs[Len(runs)].budget0

\* C35: after any sequence of setSystemIndex and setParameterSetIndex calls
\* whose indices were valid when passed, currentParameterSet is a valid index
\* into the parameter sets of the current system.
C35_SelectionIsValid == currentParameterSet < Len(getSystem.parameterSets)

\* The deferred callbacks of run id that are pending.
PendingCallbacks(id) == {k \in DOMAIN queue : queue[k].run = id}

\* C36: each run has at most one deferred callback pending, and the iteration
\* index of a run advances only in a callback of that run, taken from the
\* head of the queue, by at most one slice.
C36_OneCallbackPerRun ==
    /\ [](\A id \in Runs : Cardinality(PendingCallbacks(id)) <= 1)
    /\ [][\A id \in Runs :
             /\ runs'[id].i >= runs[id].i
             /\ runs'[id].i - runs[id].i <= SliceSize
             /\ runs'[id].i # runs[id].i
                => /\ queue # << >> /\ Head(queue).run = id
                   /\ last'.act = "slice" /\ last'.run = id]_vars
C36_Witness ==
    /\ Len(queue) = 2
    /\ \A id \in Runs : Cardinality(PendingCallbacks(id)) = 1
    /\ \E id \in Runs : runs[id].i = SliceSize /\ last.act = "slice" /\ last.run = id

\* C37: however many Attractor instances are constructed, every system has
\* one parameter set more than its built-in ones, the custom set, in the last
\* position.
C37_OneCustomSlotPerSystem ==
    \A k \in 1..NumSystems :
        /\ Len(systems[k].parameterSets) = Len(Catalogue[k].parameterSets) + 1
        /\ SubSeq(systems[k].parameterSets, 1, Len(Catalogue[k].parameterSets))
              = Catalogue[k].parameterSets
====
